---- MODULE Spec2Model ----
(***************************************************************************)
(* Model of the crawl controller of src/crawl.py: main sequences           *)
(* worker_scan_province over PROVINCE_CODES; each scan loops over          *)
(* fetch_batch, which holds one slot of the shared semaphore while         *)
(* BATCH_SIZE concurrent fetch tasks run with retry and backoff.           *)
(*                                                                         *)
(* Durations are integers in milliseconds.  Characters of an identifier    *)
(* are decimal digits, an identifier is a sequence of digits.              *)
(***************************************************************************)
EXTENDS Integers, Sequences, FiniteSets, TLC

VARIABLES
    pc,                  \* position of the main coroutine (main/worker/fetch_batch)
    prov,                \* index in PROVINCE_CODES of the province being scanned
    serial,              \* worker_scan_province: serial
    consecutive_misses,  \* worker_scan_province: consecutive_misses
    total,               \* worker_scan_province: total
    sem,                 \* free slots of the Semaphore created by main
    sbds,                \* fetch_batch: sbds
    fetches,             \* fetch_batch: the tasks gathered, one per sbd
    valid_results,       \* fetch_batch: valid_results (= batch_results of the caller)
    rate_limit_count,    \* fetch_batch: rate_limit_count
    table,               \* the files OUTPUT_DIR/<province>.csv
    cooldown,            \* ms slept by the rate-limit pause of the current batch
    base,                \* history: rows of the current table when its scan entered the loop
    log,                 \* history: the batches of the current scan, in call order
    allEmpty,            \* history: every fetch of the current scan ended Empty
    hits,                \* 200 responses with data the endpoint may still answer
    faults,              \* transient or malformed responses it may still answer
    merged_df            \* merged.py, merged_csv.py: the rows written to diem_thi_all.csv.gz

vars == <<pc, prov, serial, consecutive_misses, total, sem, sbds, fetches,
          valid_results, rate_limit_count, table, cooldown, base, log,
          allEmpty, hits, faults, merged_df>>

(***************************************************************************)
(* Bounds of the model.  BATCH_SIZE, MAX_CONSECUTIVE_MISSES and max_serial *)
(* are the program's parameters (200, 1000 and 150000 in src/crawl.py)     *)
(* scaled down, keeping  BATCH_SIZE < MAX_CONSECUTIVE_MISSES  and          *)
(* MAX_CONSECUTIVE_MISSES < max_serial.                                    *)
(***************************************************************************)
BATCH_SIZE == 2
MAX_CONSECUTIVE_MISSES == 3
max_serial == 5
NumProvinces == 2
MaxHits == 2
MaxFaults == 3

(***************************************************************************)
(* Program constants.                                                      *)
(***************************************************************************)
CONCURRENCY == 10
SERIAL_DIGITS == 6
RETRIES == 3
RATE_LIMIT_THRESHOLD_PCT == 50
COOLDOWN == 60000
PROVINCE_DIGITS == 2

subjects == <<"TOAN", "VAN", "NGOAI_NGU", "LI", "HOA", "SINH", "SU", "DIA",
              "GIAO_DUC_CONG_DAN", "TIN_HOC", "CN_CONG_NGHIEP",
              "CN_NONG_NGHIEP", "GDKT_PL", "TONGDIEM">>

Range(s) == {s[i] : i \in DOMAIN s}

(***************************************************************************)
(* String formatting: f"{n:0{w}d}" pads the decimal digits of n with       *)
(* zeros on the left up to w characters and never truncates.               *)
(***************************************************************************)
RECURSIVE Digits(_)
Digits(n) == IF n < 10 THEN <<n>> ELSE Digits(n \div 10) \o <<n % 10>>

RECURSIVE ZeroPad(_, _)
ZeroPad(d, w) == IF Len(d) >= w THEN d ELSE ZeroPad(<<0>> \o d, w)

\* Variant: the codes in descending order.
PROVINCE_CODES_descending ==
    [i \in 1..NumProvinces |-> ZeroPad(Digits(NumProvinces + 1 - i), PROVINCE_DIGITS)]

\* The first NumProvinces codes of the list "01" .. "64".
PROVINCE_CODES == [i \in 1..NumProvinces |-> ZeroPad(Digits(i), PROVINCE_DIGITS)]

\* Variant: the serial is written without padding.
build_sbd_unpadded(province, s) == province \o Digits(s)

build_sbd(province, s) == province \o ZeroPad(Digits(s), SERIAL_DIGITS)

\* Variant: the range starts one serial late.
BatchSbdsOffByOne(province, start_serial, batch_size) ==
    [k \in 1..batch_size |-> build_sbd(province, start_serial + k)]

\* fetch_batch, line 69.
BatchSbds(province, start_serial, batch_size) ==
    [k \in 1..batch_size |-> build_sbd(province, start_serial + k - 1)]

(***************************************************************************)
(* The endpoint.  A response is what session.get gives for one request:    *)
(* an HTTP status with, for 200, the decoded body (seen only through       *)
(* .get("success"), .get("total", 0) and .get("data", [])), or one of the  *)
(* two exceptions fetch catches.  "malformed" is a 200 whose body          *)
(* resp.json() cannot decode (a ValueError, which fetch does not catch).   *)
(***************************************************************************)
TinhIdOfPayload == <<9, 9>>

ItemFull == [f \in {"TinhId"} \cup Range(subjects) |->
                IF f = "TinhId" THEN TinhIdOfPayload ELSE 7]

ItemPartial == [f \in {"TOAN"} |-> 8]

Payloads == { <<>>, <<ItemFull>>, <<ItemFull, ItemPartial>> }

Json(success, tot, data) == [success |-> success, total |-> tot, data |-> data]

NoBody == Json(FALSE, 0, <<>>)

HitResponses == {[kind |-> "200", body |-> Json(TRUE, 1, d)] : d \in Payloads}

EmptyResponses == {[kind |-> "200", body |-> Json(FALSE, 0, <<>>)],
                   [kind |-> "200", body |-> Json(TRUE, 0, <<>>)]}

FaultResponses == {[kind |-> k, body |-> NoBody] :
                      k \in {"429", "http", "timeout", "client", "malformed"}}

(***************************************************************************)
(* random.uniform(0, w) on the millisecond grid: a value of the half-open  *)
(* interval [0, w); its two extremes are enumerated.                       *)
(***************************************************************************)
Jitter(w) == {0, w - 1}

BACKOFF_429 == 10000
JITTER_429 == 2000
BACKOFF_HTTP == 500
BACKOFF_TIMEOUT == 1000
BACKOFF_CLIENT == 500
JITTER_SHORT == 200

JitterWidth(kind) == IF kind = "429" THEN JITTER_429 ELSE JITTER_SHORT

\* Variant: the 429 backoff multiplies the 0-based attempt index.
wait_time_zero_based(kind, attempt, jitter) ==
    CASE kind = "429"     -> attempt * BACKOFF_429 + jitter
      [] kind = "http"    -> BACKOFF_HTTP + jitter
      [] kind = "timeout" -> BACKOFF_TIMEOUT + jitter
      [] kind = "client"  -> BACKOFF_CLIENT + jitter

\* The sleep fetch performs after the response `kind` to attempt index
\* `attempt` (0-based, the loop variable of fetch).
wait_time(kind, attempt, jitter) ==
    CASE kind = "429"     -> (attempt + 1) * BACKOFF_429 + jitter
      [] kind = "http"    -> BACKOFF_HTTP + jitter
      [] kind = "timeout" -> BACKOFF_TIMEOUT + jitter
      [] kind = "client"  -> BACKOFF_CLIENT + jitter

(***************************************************************************)
(* One fetch task.  sbd is the identifier in its url; attempt is the loop variable of fetch; last and wait   *)
(* are the response being slept on and the duration of that sleep; result  *)
(* is the value gather collects: the decoded body, {"success": False}      *)
(* (FailResult), or the exception raised (exc).  outcome and only429       *)
(* (every response so far was a 429) are history.                          *)
(***************************************************************************)
FailResult == [exc |-> FALSE, success |-> FALSE, total |-> 0, data |-> <<>>]

ExcResult == [exc |-> TRUE, success |-> FALSE, total |-> 0, data |-> <<>>]

BodyResult(body) == [exc |-> FALSE, success |-> body.success,
                     total |-> body.total, data |-> body.data]

IdleFetch == [st |-> "idle", sbd |-> <<>>, attempt |-> 0, last |-> "none",
              wait |-> 0, only429 |-> TRUE, outcome |-> "none",
              result |-> FailResult]

\* lines 73-74: the coroutine fetch(session, build_request_url(sbd, year)).
NewFetch(sbd) == [IdleFetch EXCEPT !.st = "ready", !.sbd = sbd]

Finished(f, outcome, result) ==
    [f EXCEPT !.st = "done", !.outcome = outcome, !.result = result,
              !.last = "none", !.wait = 0]

\* Variant: a 200 without data is slept on and retried like another status.
FetchOnResponseRetryingEmpty(f, resp, jitter) ==
    LET g == [f EXCEPT !.only429 = @ /\ resp.kind = "429"]
    IN  CASE resp.kind = "200" /\ resp.body.success /\ resp.body.total > 0 ->
               Finished(g, "Success", BodyResult(resp.body))
          [] resp.kind = "200" /\ ~(resp.body.success /\ resp.body.total > 0) ->
               [g EXCEPT !.st = "sleeping", !.last = "http",
                         !.wait = wait_time("http", f.attempt, jitter)]
          [] resp.kind = "malformed" -> Finished(g, "Raised", ExcResult)
          [] OTHER -> [g EXCEPT !.st = "sleeping", !.last = resp.kind,
                                !.wait = wait_time(resp.kind, f.attempt, jitter)]

\* fetch, lines 39-64: one request answered by `resp`.
FetchOnResponse(f, resp, jitter) ==
    LET g == [f EXCEPT !.only429 = @ /\ resp.kind = "429"]
    IN  CASE resp.kind = "200" ->
               IF resp.body.success /\ resp.body.total > 0
               THEN Finished(g, "Success", BodyResult(resp.body))
               ELSE Finished(g, "Empty", FailResult)
          [] resp.kind = "malformed" -> Finished(g, "Raised", ExcResult)
          [] OTHER -> [g EXCEPT !.st = "sleeping", !.last = resp.kind,
                                !.wait = wait_time(resp.kind, f.attempt, jitter)]

\* Variant: a fetch out of attempts reports success without data.
FetchOnWakeSuccessNoData(f) ==
    IF f.attempt + 1 < RETRIES
    THEN [f EXCEPT !.st = "ready", !.attempt = @ + 1, !.last = "none", !.wait = 0]
    ELSE Finished([f EXCEPT !.attempt = @ + 1], "Exhausted",
                  [FailResult EXCEPT !.success = TRUE])

\* fetch, `continue` after the sleep, and line 65 when range(retries) is used up.
FetchOnWake(f) ==
    IF f.attempt + 1 < RETRIES
    THEN [f EXCEPT !.st = "ready", !.attempt = @ + 1, !.last = "none", !.wait = 0]
    ELSE Finished([f EXCEPT !.attempt = @ + 1], "Exhausted", FailResult)

\* Requests issued by a fetch so far.
Requests(f) == IF f.outcome \in {"Success", "Empty", "Raised"}
               THEN f.attempt + 1 ELSE f.attempt

(***************************************************************************)
(* fetch_batch, lines 77-90: the records of the gathered results.          *)
(***************************************************************************)
Get(item, key, default) == IF key \in DOMAIN item THEN item[key] ELSE default

\* Variant: a missing subject defaults to 0.
RecordDefaultZero(sbd, province, item) ==
    [sbd |-> sbd,
     tinh_id |-> Get(item, "TinhId", province),
     data |-> [subj \in Range(subjects) |-> Get(item, subj, 0)]]

Record(sbd, province, item) ==
    [sbd |-> sbd,
     tinh_id |-> Get(item, "TinhId", province),
     data |-> [subj \in Range(subjects) |-> Get(item, subj, -1)]]

IsMiss(result) == result.exc \/ ~result.success

RecordsOfResult(sbd, province, result) ==
    IF IsMiss(result) THEN <<>>
    ELSE [k \in 1..Len(result.data) |-> Record(sbd, province, result.data[k])]

RECURSIVE ValidResults(_, _, _, _)
ValidResults(ids, province, results, n) ==
    IF n = 0 THEN <<>>
    ELSE ValidResults(ids, province, results, n - 1)
         \o RecordsOfResult(ids[n], province, results[n])

RateLimitCount(results) == Cardinality({i \in DOMAIN results : IsMiss(results[i])})

\* rate_limit_count / batch_size >= RATE_LIMIT_THRESHOLD, in hundredths.
\* Variant: strictly more than the threshold.
NeedsCooldownAboveHalf(count, batch_size) ==
    count * 100 > RATE_LIMIT_THRESHOLD_PCT * batch_size

NeedsCooldown(count, batch_size) == count * 100 >= RATE_LIMIT_THRESHOLD_PCT * batch_size

(***************************************************************************)
(* The files: a header part (written once, when the file is created) and   *)
(* the rows appended after it.                                             *)
(***************************************************************************)
Header == <<"SBD", "TinhId">> \o subjects

Row(item) == <<item.sbd, item.tinh_id>> \o [k \in 1..Len(subjects) |-> item.data[subjects[k]]]

Rows(items) == [k \in 1..Len(items) |-> Row(items[k])]

NoFile == [exists |-> FALSE, head |-> <<>>, rows |-> <<>>]

\* A file left by an earlier run of the crawler: the header and one row.
OldFile(province) ==
    [exists |-> TRUE, head |-> <<Header>>,
     rows |-> <<Row(Record(build_sbd(province, 1), province, ItemFull))>>]

Provinces == DOMAIN PROVINCE_CODES

Tasks == 1..BATCH_SIZE

(***************************************************************************)
(* The endpoints explored: how many responses with data and how many       *)
(* faulty responses (429, other status, timeout, client error, malformed   *)
(* body) a run may receive.  Empty 200 responses are never limited.  One   *)
(* endpoint has data and no faults, one has faults and no data, one has    *)
(* one of each.                                                            *)
(***************************************************************************)
Profiles == {<<MaxHits, 0>>, <<0, MaxFaults>>, <<1, 1>>}

(***************************************************************************)
(* main, lines 136-140: the directory, the semaphore and the session       *)
(* exist; any of the files may be there from an earlier run.               *)
(***************************************************************************)
Init ==
    /\ pc = "main"
    /\ prov = 1
    /\ serial = 1
    /\ consecutive_misses = 0
    /\ total = 0
    /\ sem = CONCURRENCY
    /\ sbds = <<>>
    /\ fetches = [i \in Tasks |-> IdleFetch]
    /\ valid_results = <<>>
    /\ rate_limit_count = 0
    /\ table \in [Provinces -> {NoFile}]
                 \cup {[p \in Provinces |-> OldFile(PROVINCE_CODES[p])]}
    /\ cooldown = 0
    /\ base = <<>>
    /\ log = <<>>
    /\ allEmpty = TRUE
    /\ \E p \in Profiles : hits = p[1] /\ faults = p[2]
    /\ merged_df = <<>>

\* worker_scan_province, lines 99-110: the locals, and the header when the
\* file does not exist.
InitStorage(file) ==
    IF file.exists THEN file
    ELSE [exists |-> TRUE, head |-> <<Header>>, rows |-> <<>>]

StartScan ==
    /\ pc = "main"
    /\ prov \in Provinces
    /\ total' = 0
    /\ consecutive_misses' = 0
    /\ serial' = 1
    /\ table' = [table EXCEPT ![prov] = InitStorage(@)]
    /\ base' = table'[prov].rows
    /\ log' = <<>>
    /\ allEmpty' = TRUE
    /\ pc' = "loop"
    /\ UNCHANGED merged_df
    /\ UNCHANGED <<prov, sem, sbds, fetches, valid_results, rate_limit_count,
                   cooldown, hits, faults>>

\* line 112, and fetch_batch line 69 when the loop is entered.
\* Variant: the last serial is excluded.
ScanContinuesBelow(s) == s < max_serial

\* Variant: one more batch is started beyond max_serial.
ScanContinuesPastMax(s) == s <= max_serial + BATCH_SIZE

ScanContinues(s) == s <= max_serial

LoopTest ==
    /\ pc = "loop"
    /\ IF ScanContinues(serial)
       THEN /\ sbds' = BatchSbds(PROVINCE_CODES[prov], serial, BATCH_SIZE)
            /\ pc' = "acquire"
       ELSE /\ sbds' = sbds
            /\ pc' = "finish"
    /\ fetches' = [i \in Tasks |-> IdleFetch]
    /\ valid_results' = <<>>
    /\ rate_limit_count' = 0
    /\ cooldown' = 0
    /\ UNCHANGED merged_df
    /\ UNCHANGED <<prov, serial, consecutive_misses, total, sem, table, base,
                   log, allEmpty, hits, faults>>

\* line 71: async with sem.
CanAcquire(free) == free > 0

Acquire ==
    /\ pc = "acquire"
    /\ CanAcquire(sem)
    /\ sem' = sem - 1
    /\ pc' = "dispatch"
    /\ UNCHANGED merged_df
    /\ UNCHANGED <<prov, serial, consecutive_misses, total, sbds, fetches,
                   valid_results, rate_limit_count, table, cooldown, base, log,
                   allEmpty, hits, faults>>

\* lines 72-75: one fetch per sbd, all started by gather.
Dispatch ==
    /\ pc = "dispatch"
    /\ fetches' = [i \in Tasks |-> NewFetch(sbds[i])]
    /\ pc' = "gather"
    /\ UNCHANGED merged_df
    /\ UNCHANGED <<prov, serial, consecutive_misses, total, sem, sbds,
                   valid_results, rate_limit_count, table, cooldown, base, log,
                   allEmpty, hits, faults>>

\* What the endpoint may answer now.
\* The transient conditions fetch retries.
TransientResponses == {r \in FaultResponses : r.kind # "malformed"}

\* A negative faults marks an endpoint that is down for the whole run: every
\* request meets a transient condition.
Responses ==
    IF faults < 0 THEN TransientResponses ELSE
    EmptyResponses
    \cup (IF hits > 0 THEN HitResponses ELSE {})
    \cup (IF faults > 0 THEN FaultResponses ELSE {})

\* fetch, lines 39-64, for task i.
FetchRequest(i) ==
    /\ fetches[i].st = "ready"
    /\ \E resp \in Responses : \E jitter \in Jitter(JitterWidth(resp.kind)) :
         LET f == FetchOnResponse(fetches[i], resp, jitter) IN
         /\ fetches' = [fetches EXCEPT ![i] = f]
         /\ hits' = IF resp \in HitResponses THEN hits - 1 ELSE hits
         /\ faults' = IF resp \in FaultResponses /\ faults > 0 THEN faults - 1 ELSE faults
         /\ allEmpty' = (allEmpty /\ (f.st = "done" => f.outcome = "Empty"))
    /\ UNCHANGED merged_df
    /\ UNCHANGED <<pc, prov, serial, consecutive_misses, total, sem, sbds,
                   valid_results, rate_limit_count, table, cooldown, base, log>>

\* fetch, the end of a backoff sleep of task i.
FetchWake(i) ==
    /\ fetches[i].st = "sleeping"
    /\ LET f == FetchOnWake(fetches[i]) IN
         /\ fetches' = [fetches EXCEPT ![i] = f]
         /\ allEmpty' = (allEmpty /\ f.st # "done")
    /\ UNCHANGED merged_df
    /\ UNCHANGED <<pc, prov, serial, consecutive_misses, total, sem, sbds,
                   valid_results, rate_limit_count, table, cooldown, base, log,
                   hits, faults>>

\* line 75: gather returns when every task has finished; leaving the
\* `async with` block releases the slot.
\* Variant: gather returns at the first task that finishes.
GatherFirstCompleted(fs) == \E i \in DOMAIN fs : fs[i].st = "done"

\* Variant: gather also returns as soon as a task has raised.
GatherOnFirstException(fs) ==
    \/ \A i \in DOMAIN fs : fs[i].st = "done"
    \/ \E i \in DOMAIN fs : fs[i].outcome = "Raised"

GatherDone(fs) == \A i \in DOMAIN fs : fs[i].st = "done"

\* Variant: the slot is kept when gather returns.
ReleaseKeepingSlot ==
    /\ pc = "gather"
    /\ GatherDone(fetches)
    /\ pc' = "aggregate"
    /\ UNCHANGED <<prov, serial, consecutive_misses, total, sem, sbds, fetches,
                   valid_results, rate_limit_count, table, cooldown, base, log,
                   allEmpty, hits, faults, merged_df>>

Release ==
    /\ pc = "gather"
    /\ GatherDone(fetches)
    /\ sem' = sem + 1
    /\ pc' = "aggregate"
    /\ UNCHANGED merged_df
    /\ UNCHANGED <<prov, serial, consecutive_misses, total, sbds, fetches,
                   valid_results, rate_limit_count, table, cooldown, base, log,
                   allEmpty, hits, faults>>

\* lines 77-92.
Aggregate ==
    /\ pc = "aggregate"
    /\ LET results == [i \in Tasks |-> fetches[i].result] IN
         /\ valid_results' = ValidResults(sbds, PROVINCE_CODES[prov], results, BATCH_SIZE)
         /\ rate_limit_count' = RateLimitCount(results)
    /\ pc' = IF NeedsCooldown(rate_limit_count', BATCH_SIZE) THEN "cooldown" ELSE "return"
    /\ UNCHANGED merged_df
    /\ UNCHANGED <<prov, serial, consecutive_misses, total, sem, sbds, fetches,
                   table, cooldown, base, log, allEmpty, hits, faults>>

\* line 94.
Cooldown ==
    /\ pc = "cooldown"
    /\ cooldown' = COOLDOWN
    /\ pc' = "return"
    /\ UNCHANGED merged_df
    /\ UNCHANGED <<prov, serial, consecutive_misses, total, sem, sbds, fetches,
                   valid_results, rate_limit_count, table, base, log, allEmpty,
                   hits, faults>>

\* lines 96 and 113-114: fetch_batch returns, the scan sleeps
\* DELAY_BETWEEN_REQUESTS.
Return ==
    /\ pc = "return"
    /\ log' = Append(log, [start |-> serial, records |-> valid_results])
    /\ pc' = "persist"
    /\ UNCHANGED merged_df
    /\ UNCHANGED <<prov, serial, consecutive_misses, total, sem, sbds, fetches,
                   valid_results, rate_limit_count, table, cooldown, base,
                   allEmpty, hits, faults>>

\* lines 116-125.
\* Variants: rows written before the old ones; only the first row written.
AppendRowsPrepending(file, items) == [file EXCEPT !.rows = Rows(items) \o @]

AppendRowsFirstOnly(file, items) ==
    [file EXCEPT !.rows = @ \o Rows(SubSeq(items, 1, 1))]

AppendRows(file, items) == [file EXCEPT !.rows = @ \o Rows(items)]

\* Variants: a miss counts one per batch; a batch with records does not reset.
MissesAfterCountingBatches(misses, batch_results) ==
    IF batch_results # <<>> THEN 0 ELSE misses + 1

MissesAfterNoReset(misses, batch_results) ==
    IF batch_results # <<>> THEN misses ELSE misses + BATCH_SIZE

MissesAfter(misses, batch_results) ==
    IF batch_results # <<>> THEN 0 ELSE misses + BATCH_SIZE

Persist ==
    /\ pc = "persist"
    /\ consecutive_misses' = MissesAfter(consecutive_misses, valid_results)
    /\ IF valid_results # <<>>
       THEN /\ total' = total + Len(valid_results)
            /\ table' = [table EXCEPT ![prov] = AppendRows(@, valid_results)]
       ELSE UNCHANGED <<total, table>>
    /\ pc' = "check"
    /\ UNCHANGED merged_df
    /\ UNCHANGED <<prov, serial, sem, sbds, fetches, valid_results,
                   rate_limit_count, cooldown, base, log, allEmpty, hits, faults>>

\* lines 127-131.
MissLimitReached(misses) == misses >= MAX_CONSECUTIVE_MISSES

\* Variant: the cursor advances by one serial.
NextSerialAdvanceByOne(s, misses) == IF MissLimitReached(misses) THEN s ELSE s + 1

NextSerial(s, misses) == IF MissLimitReached(misses) THEN s ELSE s + BATCH_SIZE

CheckStop ==
    /\ pc = "check"
    /\ pc' = IF MissLimitReached(consecutive_misses) THEN "finish" ELSE "loop"
    /\ serial' = NextSerial(serial, consecutive_misses)
    /\ UNCHANGED merged_df
    /\ UNCHANGED <<prov, consecutive_misses, total, sem, sbds, fetches,
                   valid_results, rate_limit_count, table, cooldown, base, log,
                   allEmpty, hits, faults>>

\* line 133, and main lines 141-142: the next province.
Finish ==
    /\ pc = "finish"
    /\ prov' = prov + 1
    /\ pc' = "main"
    /\ UNCHANGED merged_df
    /\ UNCHANGED <<serial, consecutive_misses, total, sem, sbds, fetches,
                   valid_results, rate_limit_count, table, cooldown, base, log,
                   allEmpty, hits, faults>>

Next ==
    \/ StartScan
    \/ LoopTest
    \/ Acquire
    \/ Dispatch
    \/ \E i \in Tasks : FetchRequest(i)
    \/ \E i \in Tasks : FetchWake(i)
    \/ Release
    \/ Aggregate
    \/ Cooldown
    \/ Return
    \/ Persist
    \/ CheckStop
    \/ Finish

Spec == Init /\ [][Next]_vars

(***************************************************************************)
(* Runs against an endpoint without faults that has no record or one, and  *)
(* runs against an endpoint that is down for the whole run.                *)
(***************************************************************************)
OutageProfiles == {<<0, 0>>, <<1, 0>>, <<0, -1>>}

InitOutage ==
    /\ pc = "main"
    /\ prov = 1
    /\ serial = 1
    /\ consecutive_misses = 0
    /\ total = 0
    /\ sem = CONCURRENCY
    /\ sbds = <<>>
    /\ fetches = [i \in Tasks |-> IdleFetch]
    /\ valid_results = <<>>
    /\ rate_limit_count = 0
    /\ table \in [Provinces -> {NoFile}]
                 \cup {[p \in Provinces |-> OldFile(PROVINCE_CODES[p])]}
    /\ cooldown = 0
    /\ base = <<>>
    /\ log = <<>>
    /\ allEmpty = TRUE
    /\ \E p \in OutageProfiles : hits = p[1] /\ faults = p[2]
    /\ merged_df = <<>>

SpecOutage == InitOutage /\ [][Next]_vars

(***************************************************************************)
(* build_sbd on its own: a call with any two-digit province code and a     *)
(* serial drawn from SerialSamples (the ends of the one- to seven-digit    *)
(* ranges and the scan's max_serial of line 104).                          *)
(***************************************************************************)
RegionNumbers == 0..(10^PROVINCE_DIGITS - 1)

SerialSamples == {0, 1, 9, 10, 99999, 100000, 150000, 999999, 1000000, 1000001}

InitBuild ==
    /\ pc = "build"
    /\ prov \in RegionNumbers
    /\ serial \in SerialSamples
    /\ consecutive_misses = 0
    /\ total = 0
    /\ sem = CONCURRENCY
    /\ sbds = <<>>
    /\ fetches = [i \in Tasks |-> IdleFetch]
    /\ valid_results = <<>>
    /\ rate_limit_count = 0
    /\ table = [p \in Provinces |-> NoFile]
    /\ cooldown = 0
    /\ base = <<>>
    /\ log = <<>>
    /\ allEmpty = TRUE
    /\ hits = 0
    /\ faults = 0
    /\ merged_df = <<>>

\* lines 30-31, called with the code of prov and serial.
Build ==
    /\ pc = "build"
    /\ sbds' = <<build_sbd(ZeroPad(Digits(prov), PROVINCE_DIGITS), serial)>>
    /\ pc' = "built"
    /\ UNCHANGED merged_df
    /\ UNCHANGED <<prov, serial, consecutive_misses, total, sem, fetches,
                   valid_results, rate_limit_count, table, cooldown, base, log,
                   allEmpty, hits, faults>>

NextBuild == Build

SpecBuild == InitBuild /\ [][NextBuild]_vars

(***************************************************************************)
(* Properties.                                                             *)
(***************************************************************************)
RECURSIVE Flatten(_)
Flatten(ss) == IF ss = <<>> THEN <<>> ELSE Head(ss) \o Flatten(Tail(ss))

\* The records of the batches of the current scan that have returned.
LoggedRecords == Flatten([k \in DOMAIN log |-> log[k].records])

CeilDiv(a, b) == (a + b - 1) \div b

Scanning == pc # "main"

Running(f) == f.st \in {"ready", "sleeping"}

\* C1: while every fetch of a scan has ended Empty, the scan has run at most
\* ceil(MAX_CONSECUTIVE_MISSES / BATCH_SIZE) batches and has appended no row
\* to its table; when it stops it has run exactly that many batches.
C1_MissStreakTermination ==
    (Scanning /\ allEmpty) =>
        /\ table[prov].rows = base
        /\ total = 0
        /\ Len(log) <= CeilDiv(MAX_CONSECUTIVE_MISSES, BATCH_SIZE)
        /\ pc = "finish" => Len(log) = CeilDiv(MAX_CONSECUTIVE_MISSES, BATCH_SIZE)

C1_Witness ==
    /\ pc = "finish"
    /\ allEmpty
    /\ Len(log) = CeilDiv(MAX_CONSECUTIVE_MISSES, BATCH_SIZE)
    /\ table[prov].head = <<Header>>
    /\ table[prov].rows = <<>>

\* C2 as stated: once a scan has stopped, its table holds the header and
\* exactly the records of the batches of that scan, in batch order.
C2_TableIsExactlyThisScan ==
    pc = "finish" =>
        table[prov] = [exists |-> TRUE, head |-> <<Header>>,
                       rows |-> Rows(LoggedRecords)]

\* C2 amended: once a scan has stopped, its table holds the header, then the
\* rows the file had when the scan began (none when the scan created it),
\* then exactly the records of the batches of that scan, in batch order.
C2_TableIsPriorRowsThenThisScan ==
    pc = "finish" =>
        /\ table[prov] = [exists |-> TRUE, head |-> <<Header>>,
                          rows |-> base \o Rows(LoggedRecords)]
        /\ \A k \in DOMAIN log : k > 1 => log[k].start > log[k - 1].start

C2_Witness ==
    /\ pc = "finish"
    /\ Len(log) >= 2
    /\ log[1].records # <<>>
    /\ log[2].records # <<>>
    /\ log[1].records # log[2].records
    /\ base = <<>>

\* C3: whenever a batch is in progress (from the acquisition of its slot to
\* the end of its last fetch), every batch started before it has returned
\* and all records of those batches are in the table.
C3_BatchesSequential ==
    (pc \in {"acquire", "dispatch", "gather"} \/ \E i \in Tasks : Running(fetches[i])) =>
        /\ Len(log) * BATCH_SIZE = serial - 1
        /\ \A k \in DOMAIN log : log[k].start = 1 + (k - 1) * BATCH_SIZE
        /\ table[prov].rows = base \o Rows(LoggedRecords)

C3_Witness ==
    /\ pc = "gather"
    /\ \E i \in Tasks : Running(fetches[i])
    /\ Len(log) = 1
    /\ Len(log[1].records) >= 2

\* C4: a fetch runs only while its batch holds a slot, the slot is acquired
\* before any fetch exists and given back only when all have finished; at
\* most CONCURRENCY slots are held, and outside a batch all are free.
C4_SlotHeldWhileFetchesRun ==
    /\ sem \in 0..CONCURRENCY
    /\ pc \in {"dispatch", "gather"} <=> sem = CONCURRENCY - 1
    /\ pc \notin {"dispatch", "gather"} <=> sem = CONCURRENCY
    /\ pc \in {"acquire", "dispatch"} => \A i \in Tasks : fetches[i].st = "idle"
    /\ (\E i \in Tasks : Running(fetches[i])) => pc = "gather"
    /\ pc \in {"aggregate", "cooldown", "return", "persist", "check"} =>
           \A i \in Tasks : fetches[i].st = "done"

C4_Witness ==
    /\ pc = "gather"
    /\ sem = CONCURRENCY - 1
    /\ \E i, j \in Tasks : fetches[i].st = "done" /\ fetches[j].st = "sleeping"

\* C5: when fetch_batch returns, it has slept the cooldown if and only if at
\* least half of its fetches did not succeed, and what it returns is, for
\* every fetch that succeeded, one record per payload row, in payload order,
\* and nothing for the others.
NonSuccess == {i \in Tasks : fetches[i].outcome # "Success"}

RecordsFor(id) == LET Mine(r) == r.sbd = id IN SelectSeq(valid_results, Mine)

C5_CooldownTrigger ==
    pc = "return" =>
        /\ rate_limit_count = Cardinality(NonSuccess)
        /\ cooldown = (IF 2 * Cardinality(NonSuccess) >= BATCH_SIZE THEN COOLDOWN ELSE 0)
        /\ \A i \in NonSuccess : RecordsFor(sbds[i]) = <<>>
        /\ \A i \in Tasks \ NonSuccess :
              LET data == fetches[i].result.data
                  recs == RecordsFor(sbds[i])
              IN  /\ Len(recs) = Len(data)
                  /\ \A k \in DOMAIN data : recs[k].data["TOAN"] = data[k]["TOAN"]
        /\ \A k \in DOMAIN valid_results : \E i \in Tasks : valid_results[k].sbd = sbds[i]

C5_Witness ==
    /\ pc = "return"
    /\ 2 * rate_limit_count = BATCH_SIZE
    /\ cooldown = COOLDOWN
    /\ Len(valid_results) = 2

\* C6 as stated: under 429 on every attempt, the sleep that precedes
\* attempt k (1-indexed) lasts k * 10 s plus a jitter in [0, 2 s).
C6_DelayBeforeAttemptK ==
    \A i \in Tasks :
        LET f == fetches[i]
            k == f.attempt + 2
        IN  (f.st = "sleeping" /\ f.only429 /\ k <= RETRIES) =>
                f.wait - k * BACKOFF_429 \in 0..(JITTER_429 - 1)

\* C6 amended: the sleep that follows the 429 answered to attempt k
\* (1-indexed), hence the one that precedes attempt k + 1, lasts k * 10 s plus
\* a jitter in [0, 2 s); under 429 on every attempt fetch issues exactly 3
\* requests and returns {"success": False}.
C6_DelayAfterAttemptK ==
    \A i \in Tasks :
        LET f == fetches[i]
            k == f.attempt + 1
        IN  /\ (f.st = "sleeping" /\ f.last = "429") =>
                   f.wait - k * BACKOFF_429 \in 0..(JITTER_429 - 1)
            /\ (f.st # "idle" /\ f.only429) => Requests(f) <= 3
            /\ (f.st = "done" /\ f.only429) =>
                   /\ Requests(f) = 3
                   /\ f.outcome = "Exhausted"
                   /\ f.result = FailResult

C6_Witness ==
    \E i \in Tasks :
        /\ fetches[i].st = "done"
        /\ fetches[i].only429
        /\ fetches[i].outcome = "Exhausted"

\* C7: the non-success count of a batch is at most BATCH_SIZE, and every
\* record of the batch carries an identifier a fetch of the batch was
\* created for: the province code followed by a serial of
\* serial .. serial + BATCH_SIZE - 1.
RECURSIVE DigitsValue(_)
DigitsValue(d) ==
    IF d = <<>> THEN 0
    ELSE 10 * DigitsValue(SubSeq(d, 1, Len(d) - 1)) + d[Len(d)]

InBatch(id) ==
    /\ SubSeq(id, 1, PROVINCE_DIGITS) = PROVINCE_CODES[prov]
    /\ DigitsValue(SubSeq(id, PROVINCE_DIGITS + 1, Len(id)))
          \in serial..(serial + BATCH_SIZE - 1)

C7_RecordsFromDispatchedIds ==
    /\ rate_limit_count <= BATCH_SIZE
    /\ pc \in {"gather", "aggregate", "cooldown", "return", "persist", "check"} =>
          \A i \in Tasks : InBatch(fetches[i].sbd)
    /\ pc \in {"cooldown", "return", "persist", "check"} =>
          \A k \in DOMAIN valid_results :
              /\ InBatch(valid_results[k].sbd)
              /\ \E i \in Tasks : fetches[i].sbd = valid_results[k].sbd

C7_Witness ==
    /\ pc = "return"
    /\ serial > 1
    /\ rate_limit_count = BATCH_SIZE - 1
    /\ Len(valid_results) = 2

\* C8: a scan stops exactly when, after a batch, the miss counter is at
\* least MAX_CONSECUTIVE_MISSES, or when, before a batch, the cursor is above
\* max_serial; a stopped scan hands over to the next province and its
\* province is never scanned again.
C8_StopCondition ==
    [][ /\ (pc # "finish" /\ pc' = "finish") <=>
              \/ pc = "check" /\ consecutive_misses >= MAX_CONSECUTIVE_MISSES
              \/ pc = "loop" /\ serial > max_serial
        /\ pc = "finish" => (pc' = "main" /\ prov' = prov + 1)
        /\ pc # "finish" => prov' = prov
        /\ pc' = "acquire" => pc = "loop"
      ]_vars

C8_Witness ==
    /\ pc = "finish"
    /\ serial > max_serial
    /\ consecutive_misses < MAX_CONSECUTIVE_MISSES
    /\ consecutive_misses > 0

\* C9 as stated: the cursor advances by BATCH_SIZE after every batch.
C9_CursorAlwaysAdvances ==
    [][pc = "check" => serial' = serial + BATCH_SIZE]_vars

\* C9 amended: the cursor advances by BATCH_SIZE after every batch but the
\* one that brings the miss counter to MAX_CONSECUTIVE_MISSES, after which
\* the scan stops with the cursor still at the start of that batch; nothing
\* else moves the cursor during a scan.
C9_CursorAdvancesUnlessMissStop ==
    [][ /\ pc = "check" =>
              serial' = IF consecutive_misses >= MAX_CONSECUTIVE_MISSES
                        THEN serial ELSE serial + BATCH_SIZE
        /\ pc \notin {"check", "main"} => serial' = serial
      ]_vars

C9_Witness ==
    /\ pc = "finish"
    /\ consecutive_misses >= MAX_CONSECUTIVE_MISSES
    /\ Len(log) >= 3
    /\ log[1].records # <<>>
    /\ serial = log[Len(log)].start
    /\ serial = 1 + (Len(log) - 1) * BATCH_SIZE

\* C10: the step that follows a batch resets the miss counter and appends
\* all records of the batch to the table of the province when the batch has
\* records, and otherwise adds BATCH_SIZE to the counter and leaves every
\* table as it is; the next batch starts only after that step.
C10_PersistEffect ==
    [][ /\ pc = "persist" =>
              /\ pc' = "check"
              /\ IF valid_results # <<>>
                 THEN /\ consecutive_misses' = 0
                      /\ table'[prov].rows = table[prov].rows \o Rows(valid_results)
                      /\ table'[prov].head = table[prov].head
                      /\ \A p \in Provinces \ {prov} : table'[p] = table[p]
                 ELSE /\ consecutive_misses' = consecutive_misses + BATCH_SIZE
                      /\ table' = table
        /\ pc' = "acquire" => pc = "loop"
        /\ pc' = "loop" => pc \in {"main", "check"}
        /\ pc' = "check" => pc = "persist"
      ]_vars

C10_Witness ==
    /\ pc = "check"
    /\ consecutive_misses = 0
    /\ Len(log) >= 2
    /\ log[Len(log) - 1].records = <<>>
    /\ Len(valid_results) >= 2

\* C11: the provinces are scanned one at a time in list order (01, 02, ...):
\* the province changes only when its scan has stopped, and then to the next
\* of the list; every fetch that exists is for the province being scanned,
\* and only that province's table is written.
C11_RegionsSerialInOrder ==
    [][ /\ prov' # prov => (pc = "finish" /\ prov' = prov + 1)
        /\ pc' \notin {"main", "finish"} => prov' \in Provinces
        /\ \A p \in Provinces : table'[p] # table[p] => (p = prov /\ prov' = prov)
        /\ \A i \in Tasks :
              (fetches'[i].st # "idle" /\ fetches'[i] # fetches[i]) =>
                  /\ pc' = "gather"
                  /\ DigitsValue(SubSeq(fetches'[i].sbd, 1, PROVINCE_DIGITS)) = prov'
      ]_vars

C11_Witness ==
    /\ prov = 2
    /\ pc = "gather"
    /\ \E i \in Tasks : Running(fetches[i])
    /\ Len(table[1].rows) >= 2
    /\ table[2].rows = <<>>

\* C12: at whatever attempt a fetch stands, a 200 answer without the success
\* flag or with total 0 ends it at once with {"success": False}: no sleep,
\* no further attempt, and one request per attempt made so far.
C12_EmptyNotRetried ==
    \A i \in Tasks :
        LET f == fetches[i] IN
        /\ f.st = "ready" =>
              \A resp \in EmptyResponses : \A jitter \in Jitter(JitterWidth(resp.kind)) :
                  LET g == FetchOnResponse(f, resp, jitter) IN
                  /\ g.st = "done"
                  /\ g.outcome = "Empty"
                  /\ g.result = FailResult
                  /\ g.wait = 0
                  /\ g.attempt = f.attempt
                  /\ Requests(g) = f.attempt + 1
        /\ f.outcome = "Empty" =>
              /\ f.st = "done"
              /\ f.wait = 0
              /\ f.last = "none"
              /\ f.attempt < RETRIES
              /\ f.result = FailResult

C12_Witness ==
    \E i \in Tasks :
        /\ fetches[i].outcome = "Empty"
        /\ fetches[i].attempt = 2
        /\ fetches[i].st = "done"

\* The fetch of f's identifier run to its end when every request it issues
\* is answered by resp.
RECURSIVE FetchUnder(_, _)
FetchUnder(f, resp) ==
    CASE f.st = "done"     -> f
      [] f.st = "sleeping" -> FetchUnder(FetchOnWake(f), resp)
      [] OTHER             -> FetchUnder(FetchOnResponse(f, resp, 0), resp)

\* An Empty fetch replaced by one that exhausts its retries on x, an
\* Exhausted fetch by one that is answered e, any other fetch kept.
Swapped(f, e, x) ==
    CASE f.outcome = "Empty"     -> FetchUnder(NewFetch(f.sbd), x)
      [] f.outcome = "Exhausted" -> FetchUnder(NewFetch(f.sbd), e)
      [] OTHER                   -> f

ResultsOf(fs) == [i \in Tasks |-> fs[i].result]

\* C13: in a gathered batch, replacing any of the Empty fetches by Exhausted
\* ones and any of the Exhausted by Empty ones leaves the returned records,
\* the non-success count, the cooldown decision, the miss counter, the cursor
\* and the stop decision as they are; and a scan against an endpoint that is
\* down (every fetch exhausts its retries) stops after
\* ceil(MAX_CONSECUTIVE_MISSES / BATCH_SIZE) batches, as does a scan in which
\* every fetch is Empty.
C13_ExhaustedEquivalentToEmpty ==
    /\ pc \in {"aggregate", "cooldown", "return", "persist"} =>
          \A S \in SUBSET Tasks : \A e \in EmptyResponses : \A x \in TransientResponses :
              LET fs == [i \in Tasks |-> IF i \in S THEN Swapped(fetches[i], e, x)
                                                    ELSE fetches[i]]
                  recs1 == ValidResults(sbds, PROVINCE_CODES[prov], ResultsOf(fetches), BATCH_SIZE)
                  recs2 == ValidResults(sbds, PROVINCE_CODES[prov], ResultsOf(fs), BATCH_SIZE)
                  n1 == RateLimitCount(ResultsOf(fetches))
                  n2 == RateLimitCount(ResultsOf(fs))
                  m1 == MissesAfter(consecutive_misses, recs1)
                  m2 == MissesAfter(consecutive_misses, recs2)
              IN  /\ \A i \in S :
                        /\ fetches[i].outcome = "Empty" => fs[i].outcome = "Exhausted"
                        /\ fetches[i].outcome = "Exhausted" => fs[i].outcome = "Empty"
                  /\ recs1 = recs2
                  /\ n1 = n2
                  /\ NeedsCooldown(n1, BATCH_SIZE) = NeedsCooldown(n2, BATCH_SIZE)
                  /\ m1 = m2
                  /\ NextSerial(serial, m1) = NextSerial(serial, m2)
                  /\ MissLimitReached(m1) = MissLimitReached(m2)
                  /\ pc # "aggregate" =>
                        /\ valid_results = recs2
                        /\ rate_limit_count = n2
                        /\ pc = "cooldown" => NeedsCooldown(n2, BATCH_SIZE)
    /\ faults < 0 =>
          \A i \in Tasks : fetches[i].st = "done" => fetches[i].outcome = "Exhausted"
    /\ (pc = "finish" /\ (allEmpty \/ faults < 0)) =>
          /\ Len(log) = CeilDiv(MAX_CONSECUTIVE_MISSES, BATCH_SIZE)
          /\ consecutive_misses = Len(log) * BATCH_SIZE
          /\ total = 0

C13_Witness ==
    /\ pc = "finish"
    /\ faults < 0
    /\ ~allEmpty
    /\ \A i \in Tasks : fetches[i].outcome = "Exhausted"
    /\ Len(log) = CeilDiv(MAX_CONSECUTIVE_MISSES, BATCH_SIZE)

\* C14: outside the gather no fetch of the batch is unfinished: once gather
\* has returned, each of the batch_size fetches has reached its own terminal
\* outcome (Exhausted only after RETRIES attempts), whatever the others did,
\* and the batch's non-success count has one unit for each fetch that raised,
\* as for each Empty or Exhausted one.
C14_NoPartialBatchCancellation ==
    /\ pc # "gather" => \A i \in Tasks : fetches[i].st \in {"idle", "done"}
    /\ pc \in {"aggregate", "cooldown", "return", "persist", "check"} =>
          \A i \in Tasks :
              /\ fetches[i].st = "done"
              /\ fetches[i].sbd = sbds[i]
              /\ fetches[i].outcome \in {"Success", "Empty", "Exhausted", "Raised"}
              /\ fetches[i].outcome = "Exhausted" => fetches[i].attempt = RETRIES
              /\ fetches[i].outcome = "Raised" <=> fetches[i].result.exc
    /\ pc \in {"cooldown", "return", "persist", "check"} =>
          rate_limit_count =
              Cardinality({i \in Tasks : fetches[i].outcome \in {"Empty", "Exhausted", "Raised"}})

C14_Witness ==
    /\ pc = "return"
    /\ \E i, j \in Tasks :
          /\ fetches[i].outcome = "Raised"
          /\ fetches[j].outcome = "Empty"
          /\ fetches[j].attempt = 2
    /\ rate_limit_count = BATCH_SIZE

\* C15: what fetch_batch returns holds, for every fetch that succeeded,
\* exactly one record per payload row, and each of the 14 subject fields of
\* that record is the row's value when the row has the field and -1 when it
\* has not.
C15_FieldDefaulting ==
    pc \in {"cooldown", "return", "persist"} =>
        \A i \in Tasks :
            fetches[i].outcome = "Success" =>
                LET rows == fetches[i].result.data
                    recs == RecordsFor(sbds[i])
                IN  /\ Len(recs) = Len(rows)
                    /\ \A k \in 1..Len(rows) :
                          /\ DOMAIN recs[k].data = Range(subjects)
                          /\ Cardinality(DOMAIN recs[k].data) = 14
                          /\ \A subj \in Range(subjects) :
                                recs[k].data[subj] =
                                    IF subj \in DOMAIN rows[k] THEN rows[k][subj] ELSE -1

C15_Witness ==
    /\ pc = "return"
    /\ \E k \in 1..Len(valid_results) :
          /\ valid_results[k].data["TOAN"] = 8
          /\ valid_results[k].data["VAN"] = -1
          /\ valid_results[k].tinh_id = PROVINCE_CODES[prov]

\* The identifier decoded: the province number of the first PROVINCE_DIGITS
\* characters and the serial of the rest.
DecodedProvince(id) == DigitsValue(SubSeq(id, 1, PROVINCE_DIGITS))

DecodedSerial(id) == DigitsValue(SubSeq(id, PROVINCE_DIGITS + 1, Len(id)))

RoundTrips ==
    /\ Len(sbds[1]) = PROVINCE_DIGITS + SERIAL_DIGITS
    /\ SubSeq(sbds[1], 1, PROVINCE_DIGITS) = ZeroPad(Digits(prov), PROVINCE_DIGITS)
    /\ DecodedProvince(sbds[1]) = prov
    /\ DecodedSerial(sbds[1]) = serial

MergeIds == {build_sbd(ZeroPad(Digits(1), PROVINCE_DIGITS), 1),
             build_sbd(ZeroPad(Digits(10), PROVINCE_DIGITS), 1)}

MergeRows == {Row(Record(id, SubSeq(id, 1, PROVINCE_DIGITS), item)) :
                 id \in MergeIds, item \in {ItemFull, ItemPartial}}

MergeFiles == {[exists |-> TRUE, head |-> <<Header>>, rows |-> r] :
                  r \in {<<>>} \cup {<<a>> : a \in MergeRows}
                               \cup {<<a, b>> : a, b \in MergeRows}}

\* pd.read_csv(f) and pd.read_csv(f, dtype={"SBD": str}).
read_csv(file, sbd_is_str) ==
    [k \in 1..Len(file.rows) |->
        [c \in 1..Len(file.rows[k]) |->
            CASE c = 1 -> IF sbd_is_str THEN file.rows[k][1]
                          ELSE DigitsValue(file.rows[k][1])
              [] c = 2 -> DigitsValue(file.rows[k][2])
              [] OTHER -> file.rows[k][c]]]

\* pd.concat(df_list, ignore_index=True), df_list in the order of all_files.
RECURSIVE concat(_, _)
concat(df_list, n) ==
    IF n = 0 THEN <<>> ELSE concat(df_list, n - 1) \o df_list[n]

\* df.drop_duplicates(subset="SBD"): the first row of each SBD is kept.
RECURSIVE drop_duplicates(_)
drop_duplicates(df) ==
    IF df = <<>> THEN <<>>
    ELSE LET kept == drop_duplicates(SubSeq(df, 1, Len(df) - 1))
             last == df[Len(df)]
         IN  IF \E k \in 1..Len(kept) : kept[k][1] = last[1]
             THEN kept ELSE Append(kept, last)

\* df.to_csv(..., index=False): the rows as text.
to_csv(df, sbd_is_str) ==
    [k \in 1..Len(df) |->
        [c \in 1..Len(df[k]) |->
            CASE c = 1 -> IF sbd_is_str THEN df[k][1] ELSE Digits(df[k][1])
              [] c = 2 -> Digits(df[k][2])
              [] OTHER -> df[k][c]]]

\* glob.glob returns the files in the order of the directory listing.
FileOrders ==
    {o \in [1..NumProvinces -> Provinces] :
        \A i, j \in 1..NumProvinces : o[i] = o[j] => i = j}

merged(all_files, sbd_is_str) ==
    LET df_list == [i \in 1..Len(all_files) |-> read_csv(table[all_files[i]], sbd_is_str)]
    IN  to_csv(drop_duplicates(concat(df_list, Len(df_list))), sbd_is_str)

InitMerge ==
    /\ pc = "merge"
    /\ prov = 1
    /\ serial = 1
    /\ consecutive_misses = 0
    /\ total = 0
    /\ sem = CONCURRENCY
    /\ sbds = <<>>
    /\ fetches = [i \in Tasks |-> IdleFetch]
    /\ valid_results = <<>>
    /\ rate_limit_count = 0
    /\ table \in [Provinces -> MergeFiles]
    /\ cooldown = 0
    /\ base = <<>>
    /\ log = <<>>
    /\ allEmpty = TRUE
    /\ hits = 0
    /\ faults = 0
    /\ merged_df = <<>>

\* src/merged.py.
Merge ==
    /\ pc = "merge"
    /\ \E all_files \in FileOrders : merged_df' = merged(all_files, FALSE)
    /\ pc' = "merged"
    /\ UNCHANGED <<prov, serial, consecutive_misses, total, sem, sbds, fetches,
                   valid_results, rate_limit_count, table, cooldown, base, log,
                   allEmpty, hits, faults>>

\* src/src/merged_csv.py.
MergeCsv ==
    /\ pc = "merge"
    /\ \E all_files \in FileOrders : merged_df' = merged(all_files, TRUE)
    /\ pc' = "merged_csv"
    /\ UNCHANGED <<prov, serial, consecutive_misses, total, sem, sbds, fetches,
                   valid_results, rate_limit_count, table, cooldown, base, log,
                   allEmpty, hits, faults>>

NextMerge == Merge \/ MergeCsv

SpecMerge == InitMerge /\ [][NextMerge]_vars

\* The identifiers of the input files and the SBD column of the output.
InputIds == UNION {{table[p].rows[k][1] : k \in 1..Len(table[p].rows)} : p \in Provinces}

NoDuplicateIds == \A i, j \in 1..Len(merged_df) : merged_df[i][1] = merged_df[j][1] => i = j

EachIdOnce ==
    \A id \in InputIds : Cardinality({k \in 1..Len(merged_df) : merged_df[k][1] = id}) = 1

\* C17: the output of the merge step, whichever of the two scripts ran, has
\* no identifier twice and has every identifier of the input files exactly
\* once.
C17_MergedIdentifiersExactlyOnce ==
    pc \in {"merged", "merged_csv"} => (NoDuplicateIds /\ EachIdOnce)

\* What holds instead: neither script writes an identifier twice, and
\* merged_csv.py, which reads SBD as a string, writes every one once.
C17_HoldsForMergedCsv ==
    /\ pc \in {"merged", "merged_csv"} => NoDuplicateIds
    /\ pc = "merged_csv" => EachIdOnce

\* C18: whatever the responses, a fetch issues at most RETRIES = 3 requests,
\* ends at the first HTTP 200 response, and ends with the payload or with
\* {"success": False}, never with an exception.
C18_FetchNeverRaises ==
    \A i \in Tasks :
        LET f == fetches[i] IN
        /\ Requests(f) <= RETRIES
        /\ f.st = "done" =>
              /\ f.outcome \in {"Success", "Empty", "Exhausted"}
              /\ ~f.result.exc
        /\ f.st = "ready" =>
              \A resp \in HitResponses \cup EmptyResponses \cup FaultResponses :
                  LET g == FetchOnResponse(f, resp, 0) IN
                  /\ resp.kind \in {"200", "malformed"} => g.st = "done"
                  /\ g.st = "done" => ~g.result.exc

C20_CooldownOutsideSlot ==
    /\ pc = "cooldown" =>
          /\ sem = CONCURRENCY
          /\ \A i \in Tasks : fetches[i].st = "done"
    /\ cooldown > 0 => (sem = CONCURRENCY /\ pc # "gather")
    /\ \A i \in Tasks :
          fetches[i].st = "sleeping" =>
              /\ pc = "gather"
              /\ sem = CONCURRENCY - 1
              /\ fetches[i].wait > 0
              /\ cooldown = 0

C20_Witness ==
    /\ pc = "cooldown"
    /\ sem = CONCURRENCY
    /\ \E i \in Tasks :
          /\ fetches[i].outcome = "Exhausted"
          /\ fetches[i].only429

====
